---------------------------- MODULE Spec2Model ----------------------------
(***************************************************************************)
(* A model of the PiicoDev peripheral drivers (Potentiometer, Ultrasonic,  *)
(* Switch, CAP1203, VEML6030, ENS160, RV3028).  Every driver is a handle   *)
(* with a stored bus address that performs synchronous register reads and  *)
(* writes; a bus transaction either reaches the device or fails.           *)
(*                                                                         *)
(* Python values are represented as follows: int as an integer, bool as    *)
(* the integers 0 and 1 (bool is a subclass of int: False == 0, True == 1),*)
(* bytes as a sequence of integers 0..255, an attribute or argument that  *)
(* may be None/False or an integer v as <<>> or <<v>>, and a returned None *)
(* or float('NaN') as the sentinel "None" or "NaN" of the call's record.   *)
(***************************************************************************)
EXTENDS Integers, Sequences, FiniteSets, TLC

VARIABLES
    codec,       \* inputs and results of the pure bit/BCD functions
    handle,      \* Potentiometer/Ultrasonic/Switch handle: kind, _address
    devAddress,  \* the address the device of `handle` answers on
    cap,         \* CAP1203 driver object and the device's registers
    veml,        \* VEML6030 driver object (gain, res) and the device's ALS_CONF
    ens,         \* ENS160 driver object (cached values) and device registers
    rtc,         \* RV3028 driver object (its attributes) and device registers
    busFaulty,   \* whether bus transactions can fail in this run
    ret          \* what the last driver call did: op, arguments, outcome

(***************************************************************************)
(* Python integer operators.  BitAnd also takes a negative first operand   *)
(* (a % 2 is then its two's-complement low bit); the others are applied    *)
(* to non-negative integers only.                                          *)
(***************************************************************************)
Shl(x, n) == x * 2^n

Shr(x, n) == x \div 2^n

RECURSIVE BitAnd(_, _)
BitAnd(a, b) ==
    IF a = 0 \/ b = 0 THEN 0
    ELSE (a % 2) * (b % 2) + 2 * BitAnd(a \div 2, b \div 2)

RECURSIVE BitOr(_, _)
BitOr(a, b) ==
    IF a = 0 THEN b
    ELSE IF b = 0 THEN a
    ELSE (IF a % 2 = 1 \/ b % 2 = 1 THEN 1 ELSE 0) + 2 * BitOr(a \div 2, b \div 2)

\* x & ~m for non-negative x, m: the bits of x that are not in m
AndNot(x, m) == x - BitAnd(x, m)

\* int.from_bytes(data, 'big')
RECURSIVE FromBytesBig(_)
FromBytesBig(data) ==
    IF data = <<>> THEN 0
    ELSE data[Len(data)] + 256 * FromBytesBig(SubSeq(data, 1, Len(data) - 1))

\* int.from_bytes(data, 'little')
RECURSIVE FromBytesLittle(_)
FromBytesLittle(data) ==
    IF data = <<>> THEN 0
    ELSE data[1] + 256 * FromBytesLittle(Tail(data))

\* int.to_bytes(x, length, 'little'); "OverflowError" when x does not fit
RECURSIVE ToBytesLittle(_, _)
ToBytesLittle(x, length) ==
    IF x < 0 \/ x >= 256^length THEN "OverflowError"
    ELSE IF length = 0 THEN <<>>
    ELSE <<x % 256>> \o ToBytesLittle(x \div 256, length - 1)

\* int.to_bytes(x, length, 'big'); "OverflowError" when x does not fit
RECURSIVE ToBytesBig(_, _)
ToBytesBig(x, length) ==
    IF x < 0 \/ x >= 256^length THEN "OverflowError"
    ELSE IF length = 0 THEN <<>>
    ELSE Append(ToBytesBig(x \div 256, length - 1), x % 256)

(***************************************************************************)
(* Bit/byte codec of PiicoDev_RV3028.py.                                   *)
(***************************************************************************)
_setBit(x, n) == BitOr(x, Shl(1, n))

_clearBit(x, n) == AndNot(x, Shl(1, n))

_writeBit(x, n, b) == IF b = 0 THEN _clearBit(x, n) ELSE _setBit(x, n)

_readBit(x, n) == IF BitAnd(x, Shl(1, n)) # 0 THEN 1 ELSE 0

_writeCrumb_swapped(x, n, c) ==
    _writeBit(_writeBit(x, n, _readBit(c, 1)), n + 1, _readBit(c, 0))

_writeCrumb(x, n, c) ==
    _writeBit(_writeBit(x, n, _readBit(c, 0)), n + 1, _readBit(c, 1))

_writeTribit(x, n, c) ==
    _writeBit(_writeBit(_writeBit(x, n, _readBit(c, 0)), n + 1, _readBit(c, 1)),
              n + 2, _readBit(c, 2))

_bcdDecode(val) == Shr(val, 4) * 10 + BitAnd(val, 15)

_bcdEncode_base16(val) == BitOr(Shl(val \div 16, 4), val % 16)

_bcdEncode(val) == BitOr(Shl(val \div 10, 4), val % 10)

(***************************************************************************)
(* Bit codec of PiicoDev_ENS160.py (_read_bit and _set_bit are repeated    *)
(* verbatim in the Potentiometer, Ultrasonic and Switch drivers).          *)
(***************************************************************************)
_read_bit(x, n) == IF BitAnd(x, Shl(1, n)) # 0 THEN 1 ELSE 0

_read_crumb(x, n) == _read_bit(x, n) + _read_bit(x, n + 1) * 2

_read_tribit(x, n) ==
    _read_bit(x, n) + _read_bit(x, n + 1) * 2 + _read_bit(x, n + 2) * 4

_set_bit(x, n) == BitOr(x, Shl(1, n))

_clear_bit(x, n) == AndNot(x, Shl(1, n))

_write_bit(x, n, b) == IF b = 0 THEN _clear_bit(x, n) ELSE _set_bit(x, n)

(***************************************************************************)
(* The pure functions, applied to inputs drawn from bounded sets.          *)
(***************************************************************************)
MaxWord == 127   \* words (and BCD inputs) range over 0..MaxWord
MaxPos == 6      \* bit positions range over 0..MaxPos
MaxField == 7    \* field values range over 0..MaxField

\* the variables the codec's actions leave alone
nonCodec == <<handle, devAddress, cap, veml, ens, rtc, busFaulty, ret>>

CodecIdle == codec = [op |-> "idle", word |-> 0, n |-> 0, v |-> 0,
                      out |-> 0, back |-> 0]

CodecInit ==
    codec \in [op : {"input"}, word : 0..MaxWord, n : 0..MaxPos,
               v : 0..MaxField, out : {0}, back : {0}]

\* _readBit(_writeBit(word, n, b), n)
ApplyWriteBit ==
    /\ codec.v <= 1
    /\ LET out == _writeBit(codec.word, codec.n, codec.v)
       IN codec' = [codec EXCEPT !.op = "writeBit", !.out = out,
                                 !.back = _readBit(out, codec.n)]
    /\ UNCHANGED nonCodec

\* _read_bit(_write_bit(word, n, b), n)
ApplyWrite_bit ==
    /\ codec.v <= 1
    /\ LET out == _write_bit(codec.word, codec.n, codec.v)
       IN codec' = [codec EXCEPT !.op = "write_bit", !.out = out,
                                 !.back = _read_bit(out, codec.n)]
    /\ UNCHANGED nonCodec

\* _read_crumb(_writeCrumb(word, n, c), n)
ApplyWriteCrumb ==
    /\ codec.v <= 3
    /\ LET out == _writeCrumb(codec.word, codec.n, codec.v)
       IN codec' = [codec EXCEPT !.op = "writeCrumb", !.out = out,
                                 !.back = _read_crumb(out, codec.n)]
    /\ UNCHANGED nonCodec

\* _read_tribit(_writeTribit(word, n, t), n)
ApplyWriteTribit ==
    /\ codec.v <= 7
    /\ LET out == _writeTribit(codec.word, codec.n, codec.v)
       IN codec' = [codec EXCEPT !.op = "writeTribit", !.out = out,
                                 !.back = _read_tribit(out, codec.n)]
    /\ UNCHANGED nonCodec

\* _bcdDecode(_bcdEncode(word))
ApplyBcd ==
    /\ LET out == _bcdEncode(codec.word)
       IN codec' = [codec EXCEPT !.op = "bcd", !.out = out,
                                 !.back = _bcdDecode(out)]
    /\ UNCHANGED nonCodec

CodecNext ==
    \/ ApplyWriteBit
    \/ ApplyWrite_bit
    \/ ApplyWriteCrumb
    \/ ApplyWriteTribit
    \/ ApplyBcd

(***************************************************************************)
(* The handle of a Potentiometer, Ultrasonic or Switch driver and the      *)
(* device behind it.                                                       *)
(***************************************************************************)
Kinds == {"Potentiometer", "Ultrasonic", "Switch"}

_BASE_ADDRESS(kind) == IF kind = "Switch" THEN 66 ELSE 53

_REG_I2C_ADDRESS == 4

\* the register setI2Caddr writes to
AddrRegister(kind) ==
    IF kind = "Switch" THEN _set_bit(_REG_I2C_ADDRESS, 7) ELSE _REG_I2C_ADDRESS

Margin == 2   \* arguments range over this far either side of each limit

AddrArgs ==
    ((8 - Margin)..(8 + Margin)) \cup ((119 - Margin)..(119 + Margin))
        \cup {-1, 53, 66, 100}

NoCall == [op |-> "none", arg |-> 0, outcome |-> "none", writes |-> 0,
           delivered |-> 0, old |-> 0]

\* the outcomes a bus transaction can have in this run (TRUE: it succeeds)
Oks == IF busFaulty THEN BOOLEAN ELSE {TRUE}

\* the variables the handle's actions leave alone
nonHandle == <<codec, cap, veml, ens, rtc, busFaulty>>

HandleIdle ==
    /\ handle = [kind |-> "none", address |-> 0]
    /\ devAddress = 0

HandleInit ==
    /\ \E k \in Kinds :
          /\ handle = [kind |-> k, address |-> _BASE_ADDRESS(k)]
          /\ devAddress = _BASE_ADDRESS(k)
    /\ ret = NoCall

\* the assert of setI2Caddr: 8<=x<=119
AddrInRange_off_by_one(x) == 8 <= x /\ x < 119

AddrInRange(x) == 8 <= x /\ x <= 119

\* i2c.writeto_mem / readfrom_mem at self.address inside _write / _read: the
\* transaction reaches the device when the bus works and the device answers
\* on the address the handle uses; _write and _read swallow the failure.
WriteReaches(busOk) == busOk /\ handle.address = devAddress

\* setI2Caddr(newAddr) with x = int(newAddr)
setI2Caddr(x, busOk) ==
    IF ~AddrInRange(x)
    THEN /\ ret' = [op |-> "setI2Caddr", arg |-> x, outcome |-> "AssertionError",
                    reg |-> AddrRegister(handle.kind),
                    writes |-> 0, delivered |-> 0, old |-> handle.address]
         /\ UNCHANGED <<handle, devAddress>>
    ELSE LET data == ToBytesBig(x, 1)
             reached == WriteReaches(busOk)
         IN /\ devAddress' = IF reached THEN FromBytesBig(data) ELSE devAddress
            /\ handle' = [handle EXCEPT !.address = x]
            /\ ret' = [op |-> "setI2Caddr", arg |-> x, outcome |-> "ok",
                       reg |-> AddrRegister(handle.kind),
                       writes |-> 1, delivered |-> IF reached THEN 1 ELSE 0,
                       old |-> handle.address]

SetI2Caddr ==
    /\ handle.kind \in Kinds
    /\ \E x \in AddrArgs, busOk \in Oks : setI2Caddr(x, busOk)
    /\ UNCHANGED nonHandle

HandleNext == SetI2Caddr

(***************************************************************************)
(* Measurement getters of the Potentiometer, Ultrasonic and Switch.  A     *)
(* getter's result is ret.value, or the sentinel named by ret.sentinel     *)
(* ("NaN", "None"); ret.outcome says whether the call returned or raised.  *)
(***************************************************************************)
MaxRaw == 1023    \* the 10-bit ADC range read from _REG_POT
MaxTrip == 40     \* round-trip times read from _REG_RAW: 0..MaxTrip and Trips
MaxCount == 3     \* press counts read from _REG_PRESS_COUNT

\* the round-trip times the device delivers
Trips == (0..MaxTrip) \cup {999, 1000, 1001, 3000, 11000, 65000, 65535}

\* _read_int(register, 2): None when _read fails, else the big-endian value
\* of the two bytes the device sends for `raw`
_read_int(raw, length, busOk) ==
    IF WriteReaches(busOk)
    THEN [none |-> FALSE, int |-> FromBytesBig(ToBytesBig(raw, length))]
    ELSE [none |-> TRUE, int |-> 0]

Returned(op, value, sentinel, failed) ==
    [op |-> op, outcome |-> "returned", value |-> value, sentinel |-> sentinel,
     failed |-> failed]

Raised(op, exc, failed) ==
    [op |-> op, outcome |-> exc, value |-> 0, sentinel |-> "none",
     failed |-> failed]

\* Potentiometer.raw
PotRaw ==
    /\ handle.kind = "Potentiometer"
    /\ \E raw \in {0, 1, 511, MaxRaw}, busOk \in Oks :
          LET r == _read_int(raw, 2, busOk)
          IN ret' = IF r.none THEN Returned("raw", 0, "NaN", TRUE)
                    ELSE Returned("raw", r.int, "none", FALSE)
    /\ UNCHANGED <<handle, devAddress>>
    /\ UNCHANGED nonHandle

\* Potentiometer.value with the default minimum=0.0, maximum=100.0; the
\* result is kept as the exact numerator over 1023.  self.raw is NaN, never
\* None, after a failed read, and the arithmetic on NaN yields NaN.
PotValue ==
    /\ handle.kind = "Potentiometer"
    /\ \E raw \in {0, 1, 511, MaxRaw}, busOk \in Oks :
          LET r == _read_int(raw, 2, busOk)
          IN ret' = IF r.none THEN Returned("value", 0, "NaN", TRUE)
                    ELSE Returned("value", 0 * 1023 + (100 - 0) * r.int, "none", FALSE)
    /\ UNCHANGED <<handle, devAddress>>
    /\ UNCHANGED nonHandle

\* Ultrasonic.round_trip_us
UsRoundTrip ==
    /\ handle.kind = "Ultrasonic"
    /\ \E t \in Trips, busOk \in Oks :
          LET r == _read_int(t, 2, busOk)
          IN ret' = IF r.none THEN Returned("round_trip_us", 0, "NaN", TRUE)
                    ELSE Returned("round_trip_us", r.int, "none", FALSE)
    /\ UNCHANGED <<handle, devAddress>>
    /\ UNCHANGED nonHandle

\* round() without the tie rule: the integer part
RoundDown(num, den) == num \div den

\* round(t*0.343/2): Python rounds to the nearest integer, ties to even
RoundHalfEven(num, den) ==
    LET q == num \div den
        r == num % den
    IN IF 2 * r > den \/ (2 * r = den /\ q % 2 = 1) THEN q + 1 ELSE q

\* the exponent of the leading bit of a positive integer
RECURSIVE Log2Floor(_)
Log2Floor(x) == IF x < 2 THEN 0 ELSE 1 + Log2Floor(x \div 2)

\* millimeters_per_microsecond = 0.343 is the double nearest to 0.343, which
\* is 0.343 + MmPerUsExcess / (1000 * 2^54)
MmPerUsExcess == 488

\* whether the double product t*0.343 lies above the exact t*343/1000, for a
\* t whose exact product is the integer 343*m (t = 1000*m): the excess
\* m*MmPerUsExcess/2^54 then exceeds half a unit in the last place of 343*m
ProductAbove(t) ==
    LET m == t \div 1000
    IN t % 1000 = 0 /\ m > 0 /\ m * MmPerUsExcess > 2 ^ (Log2Floor(343 * m) + 1)

\* Ultrasonic.distance_mm: round() of a NaN raises ValueError; otherwise
\* round(t*0.343/2) in double arithmetic.  The product is within 1e-11 of
\* t*343/1000, so the quotient falls on the same side of a half as the exact
\* t*343/2000 unless that is itself a half, where ProductAbove decides.
distance_mm(r) ==
    IF r.none THEN [exc |-> "ValueError", mm |-> 0]
    ELSE LET num == r.int * 343
         IN [exc |-> "none",
             mm |-> IF num % 2000 = 1000 /\ ProductAbove(r.int)
                    THEN num \div 2000 + 1
                    ELSE RoundHalfEven(num, 2000)]

\* what distance_mm or distance_inch did with the round-trip time `trip`:
\* the result is ret.value / ret.den
Measured(op, value, den, trip) ==
    [op |-> op, outcome |-> "returned", value |-> value, sentinel |-> "none",
     failed |-> FALSE, den |-> den, trip |-> trip]

UsDistanceMm ==
    /\ handle.kind = "Ultrasonic"
    /\ \E t \in Trips, busOk \in Oks :
          LET r == _read_int(t, 2, busOk)
              d == distance_mm(r)
          IN ret' = IF d.exc # "none" THEN Raised("distance_mm", d.exc, r.none)
                    ELSE Measured("distance_mm", d.mm, 1, r.int)
    /\ UNCHANGED <<handle, devAddress>>
    /\ UNCHANGED nonHandle

\* Ultrasonic.distance_inch = distance_mm/25.4, kept as the numerator mm*10
\* over 254
UsDistanceInch ==
    /\ handle.kind = "Ultrasonic"
    /\ \E t \in Trips, busOk \in Oks :
          LET r == _read_int(t, 2, busOk)
              d == distance_mm(r)
          IN ret' = IF d.exc # "none" THEN Raised("distance_inch", d.exc, r.none)
                    ELSE Measured("distance_inch", d.mm * 10, 254, r.int)
    /\ UNCHANGED <<handle, devAddress>>
    /\ UNCHANGED nonHandle

\* Switch.press_count
SwPressCount ==
    /\ handle.kind = "Switch"
    /\ \E n \in 0..MaxCount, busOk \in Oks :
          LET r == _read_int(n, 2, busOk)
          IN ret' = IF r.none THEN Returned("press_count", 0, "NaN", TRUE)
                    ELSE Returned("press_count", r.int, "none", FALSE)
    /\ UNCHANGED <<handle, devAddress>>
    /\ UNCHANGED nonHandle

\* what the device sends for _REG_IS_PRESSED and _REG_WAS_PRESSED
PressBytes == {0, 1, 2, 255}

\* what is_pressed or was_pressed did: the register value read (0 when the
\* read failed) and the Boolean returned
Pressed(op, reg, failed, pressed) ==
    [op |-> op, outcome |-> "returned", reg |-> reg, failed |-> failed,
     pressed |-> pressed]

\* Switch.is_pressed: False when _read_int(...) == 1, else True; the None of
\* a failed read is not equal to 1
SwIsPressed ==
    /\ handle.kind = "Switch"
    /\ \E b \in PressBytes, busOk \in Oks :
          \E r \in {_read_int(b, 1, busOk)} :
             ret' = Pressed("is_pressed", r.int, r.none, ~(~r.none /\ r.int = 1))
    /\ UNCHANGED <<handle, devAddress>>
    /\ UNCHANGED nonHandle

\* Switch.was_pressed: False when _read_int(...) == 0, else True; the None of
\* a failed read is not equal to 0
SwWasPressed ==
    /\ handle.kind = "Switch"
    /\ \E b \in PressBytes, busOk \in Oks :
          \E r \in {_read_int(b, 1, busOk)} :
             ret' = Pressed("was_pressed", r.int, r.none, ~(~r.none /\ r.int = 0))
    /\ UNCHANGED <<handle, devAddress>>
    /\ UNCHANGED nonHandle

(***************************************************************************)
(* Construction of a Potentiometer, Ultrasonic or Switch.                  *)
(***************************************************************************)
_DEVICE_ID(kind) ==
    CASE kind = "Potentiometer" -> {379, 411}
      [] kind = "Ultrasonic" -> {578}
      [] kind = "Switch" -> {409}

\* the id argument: None, or a list of four switch positions
IdArgs == {<<>>} \cup [1..4 -> {0, 1}]

\* self._address after __init__(address=_BASE_ADDRESS, id=id)
PinAddress(kind, id) ==
    IF id # <<>> /\ ~(\A i \in 1..4 : id[i] = 0)
    THEN 8 + id[1] + 2 * id[2] + 4 * id[3] + 8 * id[4]
    ELSE _BASE_ADDRESS(kind)

\* the writes __init__ makes after the identity check, through _write_int
InitWrites(kind) ==
    CASE kind = "Potentiometer" -> 0
      [] kind = "Ultrasonic" -> 2
      [] kind = "Switch" -> 3

\* __init__: the identity check prints on a mismatch and on a failed read
\* (whoami is then None, which differs from every identifier); the setters
\* called afterwards go through _write, which swallows failures.
ConstructHandle ==
    /\ handle.kind = "none"
    /\ ret.op = "none"
    /\ \E kind \in Kinds, id \in IdArgs, whoami \in {0, 379, 411, 578, 409},
          busOk \in Oks :
          LET address == PinAddress(kind, id)
              found == busOk /\ address = devAddress
              r == IF found
                   THEN [none |-> FALSE, int |-> FromBytesBig(ToBytesBig(whoami, 2))]
                   ELSE [none |-> TRUE, int |-> 0]
              mismatch == r.none \/ r.int \notin _DEVICE_ID(kind)
          IN /\ handle' = [kind |-> kind, address |-> address]
             /\ ret' = [op |-> "__init__", driver |-> kind, outcome |-> "ok",
                        logged |-> IF mismatch THEN "Incorrect device found"
                                   ELSE "none",
                        failed |-> ~found, idReadFailed |-> ~found,
                        mismatch |-> mismatch,
                        writes |-> InitWrites(kind)]
    /\ UNCHANGED devAddress
    /\ UNCHANGED nonHandle

(***************************************************************************)
(* PiicoDev_CAP1203: the driver object and the device registers it uses.   *)
(* Register addresses and arguments are bytes objects, as in the source.   *)
(***************************************************************************)
_MAIN_CONTROL == <<0>>
_GENERAL_STATUS == <<2>>
_SENSOR_INPUT_STATUS == <<3>>
_SENSITIVITY_CONTROL == <<31>>
_MULTIPLE_TOUCH_CONFIG == <<42>>

\* the configuration registers setBits is applied to
CapConfigRegs == {_SENSITIVITY_CONTROL, _MULTIPLE_TOUCH_CONFIG}

Bytes == 0..255

\* the variables the CAP1203's actions leave alone
nonCap == <<codec, handle, devAddress, veml, ens, rtc, busFaulty>>

CapIdle == cap = [made |-> FALSE, dev |-> [r \in {0} |-> 0]]

\* register contents a device is found with
CapRegSamples == {0, 47, 170, 255}

\* a constructed driver in front of a device whose MAIN_CONTROL is clear and
\* one of whose configuration registers holds one of CapRegSamples
CapInit ==
    \E a \in CapConfigRegs, v \in CapRegSamples :
        cap = [made |-> TRUE,
               dev |-> [r \in {FromBytesBig(_MAIN_CONTROL), FromBytesBig(a)} |->
                            IF r = FromBytesBig(a) THEN v ELSE 0]]

\* the for loop of setBits from bit n upwards, over range(8)
RECURSIVE CAP1203_loop_sets_only(_, _, _, _)
CAP1203_loop_sets_only(temp_byte, int_byte, int_mask, n) ==
    IF n >= 8 THEN temp_byte
    ELSE LET bit_mask == BitAnd(Shr(int_mask, n), 1)
             next == IF bit_mask = 1 /\ BitAnd(Shr(int_byte, n), 1) = 1
                     THEN BitOr(temp_byte, Shl(1, n))
                     ELSE temp_byte
         IN CAP1203_loop_sets_only(next, int_byte, int_mask, n + 1)

RECURSIVE CAP1203_loop(_, _, _, _)
CAP1203_loop(temp_byte, int_byte, int_mask, n) ==
    IF n >= 8 THEN temp_byte
    ELSE LET bit_mask == BitAnd(Shr(int_mask, n), 1)
             next == IF bit_mask = 1
                     THEN IF BitAnd(Shr(int_byte, n), 1) = 1
                          THEN BitOr(temp_byte, Shl(1, n))
                          ELSE AndNot(temp_byte, Shl(1, n))
                     ELSE temp_byte
         IN CAP1203_loop(next, int_byte, int_mask, n + 1)

\* setBits(address, byte, mask): neither bus transaction is guarded, so a
\* failed one raises OSError out of setBits
CAP1203_setBits(c, address, byte, mask, okR, okW) ==
    LET reg == FromBytesBig(address)
    IN IF ~okR THEN [cap |-> c, exc |-> "OSError", writes |-> 0]
       ELSE LET old_byte == FromBytesBig(<<c.dev[reg]>>)
                new_byte == CAP1203_loop(old_byte, FromBytesBig(byte),
                                         FromBytesBig(mask), 0)
            IN IF ~okW THEN [cap |-> c, exc |-> "OSError", writes |-> 0]
               ELSE [cap |-> [c EXCEPT !.dev[reg] = new_byte], exc |-> "none",
                     writes |-> 1]

CapByteArgs == {0, 90, 255}

CapMaskArgs == {0, 15, 112, 255}

\* a call of setBits on a configuration register of the device; the byte
\* written may also be the register's present content
CapSetBits ==
    /\ cap.made
    /\ \E reg \in DOMAIN cap.dev \ {FromBytesBig(_MAIN_CONTROL)},
          okR \in Oks, okW \in Oks :
          \E byte \in CapByteArgs \cup {cap.dev[reg]}, mask \in CapMaskArgs :
             \E r \in {CAP1203_setBits(cap, <<reg>>, <<byte>>, <<mask>>, okR, okW)} :
                /\ cap' = r.cap
                /\ ret' = [op |-> "CAP1203.setBits", outcome |-> r.exc,
                           reg |-> reg, byte |-> byte, mask |-> mask,
                           old |-> cap.dev[reg], writes |-> r.writes]
    /\ UNCHANGED nonCap

\* the loop of CAP1203.setBits merging a register's own content back into it
\* (codec.word) under a mask (codec.v)
ApplyWriteBack8 ==
    /\ codec.op = "input8"
    /\ codec' = [codec EXCEPT !.op = "writeBack8",
                              !.out = CAP1203_loop(codec.word, codec.word, codec.v, 0)]
    /\ UNCHANGED nonCodec

\* clearInterrupt(): write 0 to MAIN_CONTROL, then read it back
CAP1203_clearInterrupt(c, okW, okR) ==
    IF ~okW THEN [cap |-> c, exc |-> "OSError"]
    ELSE LET c1 == [c EXCEPT !.dev[FromBytesBig(_MAIN_CONTROL)] = 0]
         IN [cap |-> c1, exc |-> IF okR THEN "none" ELSE "OSError"]

\* read(): clearInterrupt and the GENERAL_STATUS read are inside the try and
\* yield the NaN dict when they fail; the SENSOR_INPUT_STATUS read is after
\* the try.  ret.value packs the three pad results as bits 0..2.
CapRead ==
    /\ cap.made
    /\ \E okW \in Oks, okR1 \in Oks, okR2 \in Oks, okR3 \in Oks, sts \in 0..7 :
          LET ci == CAP1203_clearInterrupt(cap, okW, okR1)
              CS1 == BitAnd(1, sts)
              CS2 == BitAnd(2, sts)
              CS3 == BitAnd(4, sts)
              pads == (IF CS1 > 0 THEN 1 ELSE 0) + (IF CS2 > 0 THEN 2 ELSE 0)
                        + (IF CS3 > 0 THEN 4 ELSE 0)
          IN /\ cap' = ci.cap
             /\ ret' = IF ci.exc # "none" \/ ~okR2
                       THEN Returned("CAP1203.read", 0, "NaN", TRUE)
                       ELSE IF ~okR3 THEN Raised("CAP1203.read", "OSError", TRUE)
                       ELSE Returned("CAP1203.read", pads, "none", FALSE)
    /\ UNCHANGED nonCap

\* readDeltaCounts(): all three reads are inside the try.  ret.value is the
\* first pad's count.
CapReadDeltaCounts ==
    /\ cap.made
    /\ \E ok1 \in Oks, ok2 \in Oks, ok3 \in Oks, dc \in {0, 1, 255} :
          ret' = IF ok1 /\ ok2 /\ ok3
                 THEN Returned("CAP1203.readDeltaCounts", dc, "none", FALSE)
                 ELSE Returned("CAP1203.readDeltaCounts", 0, "NaN", TRUE)
    /\ UNCHANGED cap
    /\ UNCHANGED nonCap

\* __init__(touchmode, sensitivity): the setBits calls are inside one try, so
\* the first failing transaction skips the rest and is only printed
ConstructCAP1203 ==
    /\ ~cap.made
    /\ ret.op = "none"
    /\ \E touchmode \in {"single", "multi", "other"}, sensitivity \in {-1, 0, 3, 7, 8},
          ok \in [1..4 -> Oks], a \in CapConfigRegs \cup {<<0>>}, v \in {0, 255} :
          LET c0 == [made |-> TRUE,
                     dev |-> [r \in {0, 31, 42} |-> IF r = FromBytesBig(a) THEN v ELSE 0]]
              s1 == IF touchmode = "single"
                    THEN CAP1203_setBits(c0, _MULTIPLE_TOUCH_CONFIG, <<128>>, <<128>>,
                                         ok[1], ok[2])
                    ELSE IF touchmode = "multi"
                    THEN CAP1203_setBits(c0, _MULTIPLE_TOUCH_CONFIG, <<0>>, <<128>>,
                                         ok[1], ok[2])
                    ELSE [cap |-> c0, exc |-> "none", writes |-> 0]
              s2 == IF s1.exc = "none" /\ sensitivity >= 0 /\ sensitivity <= 7
                    THEN CAP1203_setBits(s1.cap, _SENSITIVITY_CONTROL,
                                         <<sensitivity * 16>>, <<112>>, ok[3], ok[4])
                    ELSE s1
          IN /\ cap' = s2.cap
             /\ ret' = [op |-> "__init__", driver |-> "CAP1203", outcome |-> "ok",
                        logged |-> IF s2.exc # "none" THEN "connection failed"
                                   ELSE "none",
                        failed |-> s2.exc # "none", idReadFailed |-> FALSE,
                        mismatch |-> FALSE,
                        writes |-> s1.writes + (IF s1.exc = "none" THEN s2.writes ELSE 0)]
    /\ UNCHANGED nonCap

(***************************************************************************)
(* PiicoDev_VEML6030.  gain is kept as the text of the accepted literal,   *)
(* res in units of 0.0001 lux per count; conf is the device's 16-bit       *)
(* ALS_CONF register.                                                      *)
(***************************************************************************)
Gains == {"0.125", "0.25", "1", "2"}

GainArgs == Gains \cup {"0.5", "4"}

\* the conf bytes and the resolution setGain selects for g
GainConf(g) ==
    CASE g = "0.125" -> [conf |-> <<0, 16>>, res |-> 4608]
      [] g = "0.25" -> [conf |-> <<0, 24>>, res |-> 2304]
      [] g = "1" -> [conf |-> <<0, 0>>, res |-> 576]
      [] g = "2" -> [conf |-> <<0, 8>>, res |-> 288]

\* the mask argument of setGain's setBits call is the str 'b\x18\x00': three
\* characters 'b', '\x18', '\x00', which int.from_bytes reads as three bytes
GainMask == <<98, 24, 0>>

\* low bits of ALS_CONF (integration time, persistence, interrupt, shutdown)
ConfLowBits == {0, 1, 192, 1365, 2047}

VemlConfs == {Shl(hi, 11) + lo : hi \in 0..31, lo \in ConfLowBits}

\* the variables the VEML6030's actions leave alone
nonVeml == <<codec, handle, devAddress, cap, ens, rtc, busFaulty>>

VemlIdle == veml = [made |-> FALSE, gain |-> "none", res |-> 0, conf |-> 0]

\* a constructed driver (gain=1, res=0.0576) in front of a device whose
\* configuration register holds any of VemlConfs
VemlInit ==
    \E c \in VemlConfs : veml = [made |-> TRUE, gain |-> "1", res |-> 576, conf |-> c]

\* the for loop of setBits from bit n upwards, over range(16)
RECURSIVE VEML6030_loop(_, _, _, _)
VEML6030_loop(temp_byte, int_byte, int_mask, n) ==
    IF n >= 16 THEN temp_byte
    ELSE LET bit_mask == BitAnd(Shr(int_mask, n), 1)
             next == IF bit_mask = 1
                     THEN IF BitAnd(Shr(int_byte, n), 1) = 1
                          THEN BitOr(temp_byte, Shl(1, n))
                          ELSE AndNot(temp_byte, Shl(1, n))
                     ELSE temp_byte
         IN VEML6030_loop(next, int_byte, int_mask, n + 1)

\* the loop of VEML6030.setBits merging a register's own content back into
\* it (codec.word) under a 16-bit mask (codec.v)
ApplyWriteBack16 ==
    /\ codec.op = "input16"
    /\ codec' = [codec EXCEPT !.op = "writeBack16",
                              !.out = VEML6030_loop(codec.word, codec.word, codec.v, 0)]
    /\ UNCHANGED nonCodec

\* setBits(address, byte, mask): two reads of the register, the loop, the
\* write; none is guarded, so a failed transaction raises OSError.  The mask
\* setGain passes is a str: int.from_bytes reads its characters as bytes
\* where str has the buffer protocol (MicroPython) and raises TypeError
\* where it has not (CPython); strIsBuffer says which.
VEML6030_setBits(v, byte, mask, ok1, ok2, okW, strIsBuffer) ==
    IF ~ok1 \/ ~ok2 THEN [veml |-> v, exc |-> "OSError", writes |-> 0]
    ELSE IF ~strIsBuffer THEN [veml |-> v, exc |-> "TypeError", writes |-> 0]
    ELSE LET old_byte == FromBytesLittle(ToBytesLittle(v.conf, 2))
             int_byte == FromBytesLittle(byte)
             int_mask == FromBytesBig(mask)
             new_byte == VEML6030_loop(old_byte, int_byte, int_mask, 0)
         IN IF ~okW THEN [veml |-> v, exc |-> "OSError", writes |-> 0]
            ELSE [veml |-> [v EXCEPT !.conf = FromBytesLittle(ToBytesLittle(new_byte, 2))],
                  exc |-> "none", writes |-> 1]

\* setGain(g): gain and res are assigned before setBits talks to the device
VemlSetGain ==
    /\ veml.made
    /\ \E g \in GainArgs, ok1 \in Oks, ok2 \in Oks, okW \in Oks,
          strIsBuffer \in BOOLEAN :
          IF g \notin Gains
          THEN /\ ret' = [op |-> "setGain", arg |-> g, outcome |-> "ValueError",
                          old |-> veml.conf, byte |-> 0, mask |-> 0, writes |-> 0]
               /\ UNCHANGED veml
          ELSE LET gc == GainConf(g)
                   v1 == [veml EXCEPT !.gain = g, !.res = gc.res]
                   r == VEML6030_setBits(v1, gc.conf, GainMask, ok1, ok2, okW,
                                         strIsBuffer)
               IN /\ veml' = r.veml
                  /\ ret' = [op |-> "setGain", arg |-> g, outcome |-> r.exc,
                             old |-> veml.conf, byte |-> FromBytesLittle(gc.conf),
                             mask |-> FromBytesBig(GainMask), writes |-> r.writes]
    /\ UNCHANGED nonVeml

\* read(): the raw little-endian count times res, or NaN on a failed read
VemlRead ==
    /\ veml.made
    /\ \E raw \in {0, 1, 1000, 65535}, busOk \in Oks :
          ret' = IF busOk
                 THEN Returned("VEML6030.read",
                               FromBytesLittle(ToBytesLittle(raw, 2)) * veml.res,
                               "none", FALSE)
                 ELSE Returned("VEML6030.read", 0, "NaN", TRUE)
    /\ UNCHANGED veml
    /\ UNCHANGED nonVeml

\* __init__: gain=1, res=0.0576, then an unguarded one-byte write of
\* _DEFAULT_SETTINGS (b'\x00') to ALS_CONF.  What the device does with a
\* one-byte write to its 16-bit register is not decided by the driver: it
\* may take the low byte or ignore the short write.
ConstructVEML6030 ==
    /\ ~veml.made
    /\ ret.op = "none"
    /\ \E c \in VemlConfs, busOk \in Oks, takesLowByte \in BOOLEAN :
          IF ~busOk
          THEN /\ ret' = [op |-> "__init__", driver |-> "VEML6030",
                          outcome |-> "OSError", logged |-> "none", failed |-> TRUE,
                          idReadFailed |-> FALSE, mismatch |-> FALSE, writes |-> 0]
               /\ UNCHANGED veml
          ELSE /\ veml' = [made |-> TRUE, gain |-> "1", res |-> 576,
                           conf |-> IF takesLowByte
                                    THEN FromBytesLittle(<<0, ToBytesLittle(c, 2)[2]>>)
                                    ELSE c]
               /\ ret' = [op |-> "__init__", driver |-> "VEML6030", outcome |-> "ok",
                          logged |-> "none", failed |-> FALSE, idReadFailed |-> FALSE,
                          mismatch |-> FALSE, writes |-> 1]
    /\ UNCHANGED nonVeml

(***************************************************************************)
(* PiicoDev_ENS160.  The cached values _status, _aqi, _tvoc, _eco2 are     *)
(* kept as <<>> (None, or never assigned for _status) or <<v>>.  dev holds *)
(* the device's DEVICE_STATUS and DATA_AQI bytes and its 16-bit DATA_TVOC  *)
(* and DATA_ECO2 registers.                                                *)
(***************************************************************************)
_BIT_DEVICE_STATUS_NEWDAT == 1

_VAL_PART_ID == 352

StatusBytes == {0, 2, 131}

AqiBytes == 0..7 \cup {249}

Eco2Values == {0, 399, 400, 401, 600, 601, 750, 800, 801, 1000, 1001, 1500, 1501,
               1600, 40000}

\* what the device can hold in DATA_AQI, DATA_TVOC, DATA_ECO2
EnsSamples ==
    {[aqi |-> a, tvoc |-> 0, eco2 |-> 400] : a \in AqiBytes}
      \cup {[aqi |-> 1, tvoc |-> 100, eco2 |-> e] : e \in Eco2Values}
      \cup {[aqi |-> 2, tvoc |-> 65535, eco2 |-> 750]}

EnsDevices ==
    {[status |-> st, aqi |-> d.aqi, tvoc |-> d.tvoc, eco2 |-> d.eco2] :
        st \in StatusBytes, d \in EnsSamples}

\* the variables the ENS160's actions leave alone
nonEns == <<codec, handle, devAddress, cap, veml, rtc, busFaulty>>

EnsIdle ==
    ens = [made |-> FALSE, _status |-> <<>>, _aqi |-> <<>>, _tvoc |-> <<>>,
           _eco2 |-> <<>>, dev |-> [status |-> 0, aqi |-> 0, tvoc |-> 0, eco2 |-> 0]]

\* a constructed driver: __init__ sets _aqi, _tvoc, _eco2 to None and never
\* assigns _status
EnsInit ==
    \E d \in EnsDevices :
        ens = [made |-> TRUE, _status |-> <<>>, _aqi |-> <<>>, _tvoc |-> <<>>,
               _eco2 |-> <<>>, dev |-> d]

\* struct.unpack codes 'b' and 'h': two's complement
Signed8(x) == IF x >= 128 THEN x - 256 ELSE x

Signed16(x) == IF x >= 32768 THEN x - 65536 ELSE x

\* _read_int(register, length): int.from_bytes of what _read returns; _read
\* returns None on a failed transaction and int.from_bytes(None) raises
ENS160_read_int_none_is_zero(value, length, busOk) ==
    IF busOk
    THEN [exc |-> "none", int |-> FromBytesLittle(ToBytesLittle(value, length))]
    ELSE [exc |-> "none", int |-> 0]

ENS160_read_int(value, length, busOk) ==
    IF busOk
    THEN [exc |-> "none", int |-> FromBytesLittle(ToBytesLittle(value, length))]
    ELSE [exc |-> "TypeError", int |-> 0]

\* _read_data(): refresh the cache when the NEWDAT bit of the status is set
_read_data(e, ok1, ok2) ==
    LET device_status == ENS160_read_int(e.dev.status, 1, ok1)
    IN IF device_status.exc # "none" THEN [ens |-> e, exc |-> device_status.exc]
       ELSE IF _read_bit(device_status.int, _BIT_DEVICE_STATUS_NEWDAT) = 1
       THEN IF ~ok2 THEN [ens |-> e, exc |-> "TypeError"]
            ELSE LET data == <<e.dev.status, e.dev.aqi>>
                               \o ToBytesLittle(e.dev.tvoc, 2)
                               \o ToBytesLittle(e.dev.eco2, 2)
                 IN [ens |-> [e EXCEPT
                        !._status = <<Signed8(data[1])>>,
                        !._aqi = <<Signed8(data[2])>>,
                        !._tvoc = <<Signed16(FromBytesLittle(SubSeq(data, 3, 4)))>>,
                        !._eco2 = <<Signed16(FromBytesLittle(SubSeq(data, 5, 6)))>>],
                     exc |-> "none"]
       ELSE [ens |-> e, exc |-> "none"]

EnsRet(op, outcome, value, sentinel, rating, failed, refreshed) ==
    [op |-> op, outcome |-> outcome, value |-> value, sentinel |-> sentinel,
     rating |-> rating, failed |-> failed, refreshed |-> refreshed]

\* the ratings dict of aqi, indexed by the tribit; 6 and 7 are not keys
AqiRating(aqi) ==
    CASE aqi = 0 -> "invalid"
      [] aqi = 1 -> "excellent"
      [] aqi = 2 -> "good"
      [] aqi = 3 -> "moderate"
      [] aqi = 4 -> "poor"
      [] aqi = 5 -> "unhealthy"
      [] OTHER -> "KeyError"

\* the breakpoint ladder of eco2
Eco2Rating_from_zero(eco2) ==
    IF eco2 > 1500 THEN "bad"
    ELSE IF eco2 > 1000 THEN "poor"
    ELSE IF eco2 > 800 THEN "fair"
    ELSE IF eco2 > 600 THEN "good"
    ELSE "excellent"

Eco2Rating(eco2) ==
    IF eco2 > 1500 THEN "bad"
    ELSE IF eco2 > 1000 THEN "poor"
    ELSE IF eco2 > 800 THEN "fair"
    ELSE IF eco2 > 600 THEN "good"
    ELSE IF eco2 >= 400 THEN "excellent"
    ELSE "invalid"

\* the status property; _status is unset until the first refresh
EnsStatus ==
    /\ ens.made
    /\ \E ok1 \in Oks, ok2 \in Oks :
          \E r \in {_read_data(ens, ok1, ok2)} :
             /\ ens' = r.ens
             /\ ret' = IF r.exc # "none"
                       THEN EnsRet("status", r.exc, 0, "none", "", TRUE, FALSE)
                       ELSE IF r.ens._status = <<>>
                       THEN EnsRet("status", "AttributeError", 0, "none", "", FALSE,
                                   FALSE)
                       ELSE EnsRet("status", "returned", r.ens._status[1], "none", "",
                                   FALSE, r.ens # ens)
    /\ UNCHANGED nonEns

\* the aqi property
EnsAqi ==
    /\ ens.made
    /\ \E ok1 \in Oks, ok2 \in Oks :
          \E r \in {_read_data(ens, ok1, ok2)} :
             /\ ens' = r.ens
             /\ ret' = IF r.exc # "none"
                       THEN EnsRet("aqi", r.exc, 0, "none", "", TRUE, FALSE)
                       ELSE IF r.ens._aqi = <<>>
                       THEN EnsRet("aqi", "returned", 0, "None", "", FALSE, FALSE)
                       ELSE LET aqi == _read_tribit(r.ens._aqi[1], 0)
                            IN IF AqiRating(aqi) = "KeyError"
                               THEN EnsRet("aqi", "KeyError", aqi, "none", "", FALSE,
                                           r.ens # ens)
                               ELSE EnsRet("aqi", "returned", aqi, "none",
                                           AqiRating(aqi), FALSE, r.ens # ens)
    /\ UNCHANGED nonEns

\* the tvoc property
EnsTvoc ==
    /\ ens.made
    /\ \E ok1 \in Oks, ok2 \in Oks :
          \E r \in {_read_data(ens, ok1, ok2)} :
             /\ ens' = r.ens
             /\ ret' = IF r.exc # "none"
                       THEN EnsRet("tvoc", r.exc, 0, "none", "", TRUE, FALSE)
                       ELSE IF r.ens._tvoc = <<>>
                       THEN EnsRet("tvoc", "returned", 0, "None", "", FALSE, FALSE)
                       ELSE EnsRet("tvoc", "returned", r.ens._tvoc[1], "none", "",
                                   FALSE, r.ens # ens)
    /\ UNCHANGED nonEns

\* the eco2 property
EnsEco2 ==
    /\ ens.made
    /\ \E ok1 \in Oks, ok2 \in Oks :
          \E r \in {_read_data(ens, ok1, ok2)} :
             /\ ens' = r.ens
             /\ ret' = IF r.exc # "none"
                       THEN EnsRet("eco2", r.exc, 0, "none", "", TRUE, FALSE)
                       ELSE IF r.ens._eco2 = <<>>
                       THEN EnsRet("eco2", "returned", 0, "None", "", FALSE, FALSE)
                       ELSE EnsRet("eco2", "returned", r.ens._eco2[1], "none",
                                   Eco2Rating(r.ens._eco2[1]), FALSE, r.ens # ens)
    /\ UNCHANGED nonEns

\* the humidity property: _read_int(_REG_DATA_RH, 2)/512, kept as the
\* numerator over 512
EnsHumidity ==
    /\ ens.made
    /\ \E raw \in {0, 25600, 65535}, busOk \in Oks :
          LET r == ENS160_read_int(raw, 2, busOk)
          IN ret' = IF r.exc # "none"
                    THEN EnsRet("humidity", r.exc, 0, "none", "", TRUE, FALSE)
                    ELSE EnsRet("humidity", "returned", r.int, "none", "", FALSE, FALSE)
    /\ UNCHANGED ens
    /\ UNCHANGED nonEns

\* the temperature property: _read_int(_REG_DATA_T, 2)/64 - 273.15, kept as
\* the numerator of the kelvin value over 64
EnsTemperature ==
    /\ ens.made
    /\ \E raw \in {0, 19081, 65535}, busOk \in Oks :
          LET r == ENS160_read_int(raw, 2, busOk)
          IN ret' = IF r.exc # "none"
                    THEN EnsRet("temperature", r.exc, 0, "none", "", TRUE, FALSE)
                    ELSE EnsRet("temperature", "returned", r.int, "none", "", FALSE,
                                FALSE)
    /\ UNCHANGED ens
    /\ UNCHANGED nonEns

\* the device finishes a measurement (or not): its registers take new values
EnsDeviceUpdate ==
    /\ ens.made
    /\ \E d \in EnsDevices : ens' = [ens EXCEPT !.dev = d]
    /\ UNCHANGED ret
    /\ UNCHANGED nonEns

\* __init__: a failed part-id read makes int.from_bytes raise, which the
\* handler prints and re-raises; a wrong part id raises SystemExit; the
\* transactions after it are the opmode write and read, the config write and
\* the temperature and humidity writes
ConstructENS160 ==
    /\ ~ens.made
    /\ ret.op = "none"
    /\ \E d \in EnsDevices, part \in {0, _VAL_PART_ID}, ok \in [1..6 -> Oks] :
          LET part_id == ENS160_read_int(part, 2, ok[1])
              opmode == ENS160_read_int(2, 1, ok[3])
              exc == IF part_id.exc # "none" THEN part_id.exc
                     ELSE IF part_id.int # _VAL_PART_ID THEN "SystemExit"
                     ELSE opmode.exc
              failed == \E i \in 1..6 : ~ok[i]
          IN /\ ens' = IF exc = "none"
                       THEN [made |-> TRUE, _status |-> <<>>, _aqi |-> <<>>,
                             _tvoc |-> <<>>, _eco2 |-> <<>>, dev |-> d]
                       ELSE ens
             /\ ret' = [op |-> "__init__", driver |-> "ENS160", outcome |->
                            IF exc = "none" THEN "ok" ELSE exc,
                        logged |-> IF exc = "SystemExit"
                                   THEN "Device is not PiicoDev ENS160"
                                   ELSE IF exc # "none" THEN "PiicoDev could not communicate"
                                   ELSE "none",
                        failed |-> failed, idReadFailed |-> ~ok[1],
                        mismatch |-> part_id.exc = "none" /\ part_id.int # _VAL_PART_ID,
                        writes |-> IF exc = "none" THEN 4
                                   ELSE IF exc = opmode.exc /\ part_id.exc = "none"
                                             /\ part_id.int = _VAL_PART_ID
                                   THEN 1 ELSE 0]
    /\ UNCHANGED nonEns

(***************************************************************************)
(* PiicoDev_RV3028.  rtc holds the driver's attributes and, in dev, the    *)
(* device registers the driver uses.  Integers read from several registers *)
(* at once exceed the 32-bit integers of TLC, so such an integer is kept   *)
(* as its base-256 digits, least significant first, without leading zero   *)
(* digits (BigFromBytes / BigToBytes).                                     *)
(***************************************************************************)
_SEC == 0
_ALMIN == 7
_STATUS == 14
_CTRL1 == 15
_CTRL2 == 16
_SECTS == 21
_EE_BACKUP == 55

RtcRegs == (0..9) \cup {_STATUS, _CTRL1, _CTRL2} \cup (21..26) \cup {_EE_BACKUP}

\* int.from_bytes(data, 'little') as base-256 digits
RECURSIVE BigFromBytes(_)
BigFromBytes(data) ==
    IF data = <<>> THEN <<>>
    ELSE IF data[Len(data)] = 0 THEN BigFromBytes(SubSeq(data, 1, Len(data) - 1))
    ELSE data

\* tmp.to_bytes(length, 'little') of such an integer
BigToBytes(big, length) ==
    IF Len(big) > length THEN "OverflowError"
    ELSE big \o [i \in 1..(length - Len(big)) |-> 0]

\* the bytes of N consecutive registers from reg
RegBytes(dev, reg, N) == [i \in 1..N |-> dev[reg + i - 1]]

\* dev with the bytes of data written from reg on
WithBytes(dev, reg, data) ==
    [x \in DOMAIN dev |->
        IF x >= reg /\ x < reg + Len(data) THEN data[x - reg + 1] ELSE dev[x]]

\* setBatterySwitchover(state): state is "True", "False" or anything else.
\* A failed read yields NaN, on which _writeCrumb raises TypeError; a failed
\* write is swallowed by _write.
setBatterySwitchover(r, state, okR, okW) ==
    IF state \notin {"True", "False"} THEN [rtc |-> r, exc |-> "none", writes |-> 0]
    ELSE IF ~okR THEN [rtc |-> r, exc |-> "TypeError", writes |-> 0]
    ELSE LET tmp == FromBytesLittle(<<r.dev[_EE_BACKUP]>>)
             new == IF state = "True" THEN _writeCrumb(tmp, 2, 1)
                    ELSE _writeCrumb(tmp, 2, 0)
         IN [rtc |-> IF okW THEN [r EXCEPT !.dev[_EE_BACKUP] = ToBytesLittle(new, 1)[1]]
                     ELSE r,
             exc |-> "none", writes |-> 1]

\* setTrickleCharger(state)
setTrickleCharger(r, state, okR, okW) ==
    IF state \notin {"True", "False"} THEN [rtc |-> r, exc |-> "none", writes |-> 0]
    ELSE IF ~okR THEN [rtc |-> r, exc |-> "TypeError", writes |-> 0]
    ELSE LET tmp == FromBytesLittle(<<r.dev[_EE_BACKUP]>>)
             new == IF state = "True" THEN _writeBit(tmp, 5, 1)
                    ELSE _writeBit(tmp, 5, 0)
         IN [rtc |-> IF okW THEN [r EXCEPT !.dev[_EE_BACKUP] = ToBytesLittle(new, 1)[1]]
                     ELSE r,
             exc |-> "none", writes |-> 1]

\* configTrickleCharger(R): _setBit(tmp,7) comes before the test of R
configTrickleCharger(r, R, okR, okW) ==
    IF ~okR THEN [rtc |-> r, exc |-> "TypeError", writes |-> 0]
    ELSE IF R \notin {"3k", "5k", "9k", "15k"}
    THEN [rtc |-> r, exc |-> "none", writes |-> 0]
    ELSE LET tmp == _setBit(FromBytesLittle(<<r.dev[_EE_BACKUP]>>), 7)
             c == CASE R = "3k" -> 0 [] R = "5k" -> 1 [] R = "9k" -> 2 [] R = "15k" -> 3
             new == _writeCrumb(tmp, 0, c)
         IN [rtc |-> IF okW THEN [r EXCEPT !.dev[_EE_BACKUP] = ToBytesLittle(new, 1)[1]]
                     ELSE r,
             exc |-> "none", writes |-> 1]

\* getDateTime(eventTimestamp): day, month and year are assigned before the
\* CTRL2 read, so they stay assigned when that read fails
getDateTime_hour_keeps_pm_flag(r, eventTimestamp, ok1, ok2) ==
    IF ~ok1 THEN [rtc |-> r, exc |-> "AttributeError", writes |-> 0]
    ELSE LET tmp == IF eventTimestamp THEN BigFromBytes(RegBytes(r.dev, _SECTS, 6))
                    ELSE BigFromBytes(RegBytes(r.dev, _SEC, 7))
             date == IF eventTimestamp THEN BigToBytes(tmp, 6) ELSE BigToBytes(tmp, 7)
             r1 == IF eventTimestamp
                   THEN [r EXCEPT !.day = _bcdDecode(date[4]), !.month = _bcdDecode(date[5]),
                                  !.year = _bcdDecode(date[6])]
                   ELSE [r EXCEPT !.day = _bcdDecode(date[5]), !.month = _bcdDecode(date[6]),
                                  !.year = _bcdDecode(date[7])]
         IN IF ~ok2 THEN [rtc |-> r1, exc |-> "TypeError", writes |-> 0]
            ELSE LET hrFormat == _readBit(FromBytesLittle(<<r.dev[_CTRL2]>>), 1)
                     t == BigToBytes(tmp, 7)
                     r2 == [r1 EXCEPT !.minute = _bcdDecode(t[2]),
                                      !.second = _bcdDecode(t[1]),
                                      !.hour = _bcdDecode(t[3]),
                                      !._weekday = t[4],
                                      !.ampm = "24"]
                     r3 == IF hrFormat = 1
                           THEN IF _readBit(t[3], 5) = 0 THEN [r2 EXCEPT !.ampm = "AM"]
                                ELSE [r2 EXCEPT !.ampm = "PM"]
                           ELSE r2
                 IN [rtc |-> r3, exc |-> "none", writes |-> 0]

getDateTime(r, eventTimestamp, ok1, ok2) ==
    IF ~ok1 THEN [rtc |-> r, exc |-> "AttributeError", writes |-> 0]
    ELSE LET tmp == IF eventTimestamp THEN BigFromBytes(RegBytes(r.dev, _SECTS, 6))
                    ELSE BigFromBytes(RegBytes(r.dev, _SEC, 7))
             date == IF eventTimestamp THEN BigToBytes(tmp, 6) ELSE BigToBytes(tmp, 7)
             r1 == IF eventTimestamp
                   THEN [r EXCEPT !.day = _bcdDecode(date[4]), !.month = _bcdDecode(date[5]),
                                  !.year = _bcdDecode(date[6])]
                   ELSE [r EXCEPT !.day = _bcdDecode(date[5]), !.month = _bcdDecode(date[6]),
                                  !.year = _bcdDecode(date[7])]
         IN IF ~ok2 THEN [rtc |-> r1, exc |-> "TypeError", writes |-> 0]
            ELSE LET hrFormat == _readBit(FromBytesLittle(<<r.dev[_CTRL2]>>), 1)
                     t == BigToBytes(tmp, 7)
                     r2 == [r1 EXCEPT !.minute = _bcdDecode(t[2]),
                                      !.second = _bcdDecode(t[1]),
                                      !.hour = _bcdDecode(t[3]),
                                      !._weekday = t[4],
                                      !.ampm = "24"]
                     r3 == IF hrFormat = 1
                           THEN IF _readBit(t[3], 5) = 0 THEN [r2 EXCEPT !.ampm = "AM"]
                                ELSE [r2 EXCEPT !.hour = _bcdDecode(_clearBit(t[3], 5)),
                                                !.ampm = "PM"]
                           ELSE r2
                 IN [rtc |-> r3, exc |-> "none", writes |-> 0]

\* setDateTime(): bytes([...]) raises ValueError when an encoded field is no
\* byte
setDateTime(r, okR, okW1, okW2) ==
    LET year_2_digits == IF r.year > 100 THEN r.year - 2000 ELSE r.year
    IN IF ~okR THEN [rtc |-> r, exc |-> "TypeError", writes |-> 0]
       ELSE LET tmp0 == FromBytesLittle(<<r.dev[_CTRL2]>>)
                tmp == IF r.ampm = "24" THEN _writeBit(tmp0, 1, 0)
                       ELSE _writeBit(tmp0, 1, 1)
                hrs0 == _bcdEncode(r.hour)
                hrs == IF r.ampm = "AM" THEN _clearBit(hrs0, 5)
                       ELSE IF r.ampm = "PM" THEN _setBit(hrs0, 5)
                       ELSE hrs0
                data == <<_bcdEncode(r.second), _bcdEncode(r.minute), hrs, r._weekday,
                          _bcdEncode(r.day), _bcdEncode(r.month),
                          _bcdEncode(year_2_digits)>>
                r1 == IF okW1 THEN [r EXCEPT !.dev[_CTRL2] = ToBytesLittle(tmp, 1)[1]]
                      ELSE r
            IN IF \E i \in 1..7 : data[i] \notin Bytes
               THEN [rtc |-> r1, exc |-> "ValueError", writes |-> 1]
               ELSE [rtc |-> IF okW2 THEN [r1 EXCEPT !.dev = WithBytes(r1.dev, _SEC, data)]
                             ELSE r1,
                     exc |-> "none", writes |-> 2]

\* Python truth value of an optional integer argument: <<>> is the default
\* False, <<v>> the integer v
Truthy(arg) == arg # <<>> /\ arg[1] # 0

\* the guard of alarmSetup's early return: `if weekday and date`
BothGiven(weekday, date) == Truthy(weekday) /\ Truthy(date)

\* alarmSetup(minutes, hours, weekday, date, interrupt); `x is not False`
\* holds for every integer x, 0 included
alarmSetup(r, minutes, hours, weekday, date, interrupt, okR1, okW1, okW2, okR2, okW3) ==
    IF BothGiven(weekday, date)
    THEN [rtc |-> r, exc |-> "none", writes |-> 0, early |-> TRUE]
    ELSE LET AE_WD == IF weekday # <<>> \/ date # <<>> THEN 0 ELSE 1
             WADA == IF date # <<>> THEN 1 ELSE 0
             r1 == IF date # <<>> THEN [r EXCEPT !.alarmWeekdayDate = date[1]]
                   ELSE IF weekday # <<>> THEN [r EXCEPT !.alarmWeekdayDate = weekday[1]]
                   ELSE r
         IN IF ~okR1 THEN [rtc |-> r1, exc |-> "TypeError", writes |-> 0, early |-> FALSE]
            ELSE LET ctrl1 == _writeBit(FromBytesLittle(<<r1.dev[_CTRL1]>>), 5, WADA)
                     r2 == IF okW1
                           THEN [r1 EXCEPT !.dev[_CTRL1] = ToBytesLittle(ctrl1, 1)[1]]
                           ELSE r1
                     AE_H == IF hours # <<>> THEN 0 ELSE 1
                     r3 == IF hours # <<>> THEN [r2 EXCEPT !.alarmHours = hours[1]] ELSE r2
                     h0 == _bcdEncode(r3.alarmHours)
                     h1 == IF r3.ampm # "24"
                           THEN _writeBit(h0, 5, IF r3.alarm_ampm = "PM" THEN 1 ELSE 0)
                           ELSE h0
                     AE_M == IF minutes # <<>> THEN 0 ELSE 1
                     r4 == IF minutes # <<>> THEN [r3 EXCEPT !.alarmMinutes = minutes[1]]
                           ELSE r3
                     m == BitOr(Shl(AE_M, 7), _bcdEncode(r4.alarmMinutes))
                     h == BitOr(Shl(AE_H, 7), h1)
                     d == BitOr(Shl(AE_WD, 7), _bcdEncode(r4.alarmWeekdayDate))
                 IN IF m \notin Bytes \/ h \notin Bytes \/ d \notin Bytes
                    THEN [rtc |-> r4, exc |-> "ValueError", writes |-> 1, early |-> FALSE]
                    ELSE LET r5 == IF okW2
                                   THEN [r4 EXCEPT !.dev = WithBytes(r4.dev, _ALMIN, <<m, h, d>>)]
                                   ELSE r4
                         IN IF ~okR2
                            THEN [rtc |-> r5, exc |-> "TypeError", writes |-> 2,
                                  early |-> FALSE]
                            ELSE LET ctrl2 == _writeBit(FromBytesLittle(<<r5.dev[_CTRL2]>>),
                                                        3, IF interrupt THEN 1 ELSE 0)
                                 IN [rtc |-> IF okW3
                                             THEN [r5 EXCEPT !.dev[_CTRL2] =
                                                                ToBytesLittle(ctrl2, 1)[1]]
                                             ELSE r5,
                                     exc |-> "none", writes |-> 3, early |-> FALSE]

\* checkAlarm(): returns the alarm flag (bit 2 of STATUS) and clears it
checkAlarm(r, okR, okW) ==
    IF ~okR THEN [rtc |-> r, exc |-> "TypeError", writes |-> 0, flag |-> 0]
    ELSE LET tmp == FromBytesLittle(<<r.dev[_STATUS]>>)
         IN IF _readBit(tmp, 2) = 1
            THEN [rtc |-> IF okW
                          THEN [r EXCEPT !.dev[_STATUS] =
                                            ToBytesLittle(_writeBit(tmp, 2, 0), 1)[1]]
                          ELSE r,
                  exc |-> "none", writes |-> 1, flag |-> 1]
            ELSE [rtc |-> r, exc |-> "none", writes |-> 0, flag |-> 0]

\* __init__ on a device with registers dev: the identity read (re-raised
\* OSError on failure), the attribute defaults, setBatterySwitchover(),
\* configTrickleCharger(), setTrickleCharger(), getDateTime()
RV3028_init(dev, ok) ==
    LET r0 == [made |-> TRUE, _weekday |-> 0, alarmHours |-> 0, alarm_ampm |-> "am",
               alarmMinutes |-> 0, alarmWeekdayDate |-> 0,
               day |-> 0, month |-> 0, year |-> 0, hour |-> 0, minute |-> 0,
               second |-> 0, ampm |-> "unset", dev |-> dev]
    IN IF ~ok[1] THEN [rtc |-> r0, exc |-> "OSError", writes |-> 0]
       ELSE LET s1 == setBatterySwitchover(r0, "True", ok[2], ok[3])
            IN IF s1.exc # "none" THEN s1
               ELSE LET s2 == configTrickleCharger(s1.rtc, "3k", ok[4], ok[5])
                    IN IF s2.exc # "none" THEN s2
                       ELSE LET s3 == setTrickleCharger(s2.rtc, "True", ok[6], ok[7])
                            IN IF s3.exc # "none" THEN s3
                               ELSE LET s4 == getDateTime(s3.rtc, FALSE, ok[8], ok[9])
                                    IN [rtc |-> s4.rtc, exc |-> s4.exc, writes |-> 3]

AllOk == [i \in 1..9 |-> TRUE]

\* packed BCD of a two-digit value, as the device holds it
Bcd(v) == (v \div 10) * 16 + (v % 10)

MaxYear == 99   \* two-digit years range over 0..MaxYear
MaxHour == 23   \* hours range over 0..MaxHour

BaseTime == [second |-> 0, minute |-> 0, hour |-> 1, weekday |-> 0, day |-> 1,
             month |-> 1, year |-> 0]

\* calendar values, one field at a time: every hour and weekday, and for
\* the other fields the ends of the range and the values around a change of
\* the BCD tens digit
TimeSamples ==
    {[BaseTime EXCEPT !.second = v] : v \in {0, 9, 10, 59}}
      \cup {[BaseTime EXCEPT !.minute = v] : v \in {0, 9, 10, 59}}
      \cup {[BaseTime EXCEPT !.hour = v] : v \in 0..MaxHour}
      \cup {[BaseTime EXCEPT !.weekday = v] : v \in 0..6}
      \cup {[BaseTime EXCEPT !.day = v] : v \in {1, 9, 10, 31}}
      \cup {[BaseTime EXCEPT !.month = v] : v \in {1, 9, 10, 12}}
      \cup {[BaseTime EXCEPT !.year = v] : v \in {0, 9, 10, MaxYear}}
      \cup {[second |-> 59, minute |-> 59, hour |-> 12, weekday |-> 6, day |-> 31,
             month |-> 12, year |-> 99]}

Modes == {"24", "AM", "PM"}

BaseDev == [x \in RtcRegs |-> IF x \in {4, 5, 24, 25} THEN 1 ELSE 0]

\* the time registers of a device holding sample t in the given mode
TimeBytes(t, mode) ==
    <<Bcd(t.second), Bcd(t.minute),
      Bcd(t.hour) + (IF mode = "PM" THEN 32 ELSE 0),
      t.weekday, Bcd(t.day), Bcd(t.month), Bcd(t.year)>>

\* devices holding in-domain calendar values: a 24-hour device with any
\* sample, a 12-hour device with any hour 1..12 AM or PM
RtcTimeDevices ==
    {WithBytes(BaseDev, _SEC, TimeBytes(t, "24")) : t \in TimeSamples}
      \cup {[WithBytes(BaseDev, _SEC, TimeBytes([BaseTime EXCEPT !.hour = h], m))
                EXCEPT ![_CTRL2] = c] :
              h \in 1..12, m \in {"AM", "PM"}, c \in {2, 255}}

\* devices differing in the registers the alarm and backup settings share
\* contents of the backup register: every value of the switchover crumb
\* (bits 2-3) and of the trickle charger bit (bit 5), the other bits all
\* clear or all set
BackupSamples ==
    {Shl(c, 2) + Shl(b, 5) + o : c \in 0..3, b \in 0..1, o \in {0, 211}}

RtcConfigDevices ==
    {[BaseDev EXCEPT ![_EE_BACKUP] = v] : v \in BackupSamples}
      \cup {[BaseDev EXCEPT ![_CTRL1] = c1, ![_CTRL2] = c2, ![_STATUS] = st] :
              c1 \in {0, 3}, c2 \in {0, 2}, st \in {0, 251}}

\* the variables the RV3028's actions leave alone
nonRtc == <<codec, handle, devAddress, cap, veml, ens, busFaulty>>

RtcIdle ==
    rtc = [made |-> FALSE, _weekday |-> 0, alarmHours |-> 0, alarm_ampm |-> "am",
           alarmMinutes |-> 0, alarmWeekdayDate |-> 0,
           day |-> 0, month |-> 0, year |-> 0, hour |-> 0, minute |-> 0,
           second |-> 0, ampm |-> "unset", dev |-> BaseDev]

\* a driver whose construction on one of `devices` succeeded
RtcInitOver(devices) ==
    \E dev \in devices :
        \E r \in {RV3028_init(dev, AllOk)} : r.exc = "none" /\ rtc = r.rtc

RtcRet(op, arg, r, okW) ==
    [op |-> op, arg |-> arg, outcome |-> r.exc, writes |-> r.writes,
     delivered |-> okW /\ r.writes > 0, old |-> rtc.dev[_EE_BACKUP],
     changed |-> r.rtc # rtc]

StateArgs == {"True", "False", "1"}

RtcSetBatterySwitchover ==
    /\ rtc.made
    /\ \E state \in StateArgs, okR \in Oks, okW \in Oks :
          \E r \in {setBatterySwitchover(rtc, state, okR, okW)} :
             /\ rtc' = r.rtc
             /\ ret' = RtcRet("setBatterySwitchover", state, r, okW)
    /\ UNCHANGED nonRtc

RtcSetTrickleCharger ==
    /\ rtc.made
    /\ \E state \in StateArgs, okR \in Oks, okW \in Oks :
          \E r \in {setTrickleCharger(rtc, state, okR, okW)} :
             /\ rtc' = r.rtc
             /\ ret' = RtcRet("setTrickleCharger", state, r, okW)
    /\ UNCHANGED nonRtc

RtcConfigTrickleCharger ==
    /\ rtc.made
    /\ \E R \in {"3k", "5k", "9k", "15k", "1k"}, okR \in Oks, okW \in Oks :
          \E r \in {configTrickleCharger(rtc, R, okR, okW)} :
             /\ rtc' = r.rtc
             /\ ret' = RtcRet("configTrickleCharger", R, r, okW)
    /\ UNCHANGED nonRtc

\* the caller assigns the date/time attributes and ampm, then calls
\* setDateTime()
RtcSetDateTime ==
    /\ rtc.made
    /\ \E t \in TimeSamples, mode \in Modes, okR \in Oks, okW1 \in Oks, okW2 \in Oks :
          LET r0 == [rtc EXCEPT !.second = t.second, !.minute = t.minute,
                                !.hour = t.hour, !._weekday = t.weekday,
                                !.day = t.day, !.month = t.month, !.year = t.year,
                                !.ampm = mode]
          IN \E r \in {setDateTime(r0, okR, okW1, okW2)} :
             /\ rtc' = r.rtc
             /\ ret' = [op |-> "setDateTime", outcome |-> r.exc, writes |-> r.writes,
                        sample |-> t, mode |-> mode,
                        stored |-> r.exc = "none" /\ okW1 /\ okW2,
                        eventTimestamp |-> FALSE, afterSet |-> FALSE]
    /\ UNCHANGED nonRtc

\* getDateTime(eventTimestamp); ret remembers whether the call follows a
\* setDateTime() whose writes the device stored, and what that call wrote
RtcGetDateTime ==
    /\ rtc.made
    /\ \E eventTimestamp \in BOOLEAN, ok1 \in Oks, ok2 \in Oks :
          LET afterSet == ret.op = "setDateTime" /\ ret.stored
          IN \E r \in {getDateTime(rtc, eventTimestamp, ok1, ok2)} :
             /\ rtc' = r.rtc
             /\ ret' = [op |-> "getDateTime", outcome |-> r.exc, writes |-> 0,
                        sample |-> IF afterSet THEN ret.sample ELSE BaseTime,
                        mode |-> IF afterSet THEN ret.mode ELSE "24",
                        stored |-> FALSE,
                        eventTimestamp |-> eventTimestamp, afterSet |-> afterSet]
    /\ UNCHANGED nonRtc

_dayNames == <<"Monday", "Tuesday", "Wednesday", "Thursday", "Friday", "Saturday",
               "Sunday">>

DayNames == {_dayNames[i] : i \in 1..7}

\* arguments of the weekday setter, inside and around 0..6
WeekdaySetArgs == {-1, 0, 3, 6, 7}

\* arguments of the weekdayName setter: the day names and two other strings
WeekdayNameArgs == DayNames \cup {"monday", "Someday"}

\* the timestamp registers of a device whose last event was at time t
StampBytes(t) ==
    <<Bcd(t.second), Bcd(t.minute), Bcd(t.hour), Bcd(t.day), Bcd(t.month), Bcd(t.year)>>

\* devices holding in-domain calendar values in the time registers and in
\* the timestamp registers: every weekday, every hour of the timestamp
RtcStampDevices ==
    {WithBytes(WithBytes(BaseDev, _SEC, TimeBytes([BaseTime EXCEPT !.weekday = w], "24")),
               _SECTS, StampBytes(t)) :
        w \in 0..6, t \in {x \in TimeSamples : x.weekday = 0}}

WeekdayRet(op, arg, name, outcome, warned) ==
    [op |-> op, arg |-> arg, name |-> name, outcome |-> outcome, warned |-> warned]

\* the weekday setter: stores the argument when it lies in 0..6, else warns
RtcSetWeekday ==
    /\ rtc.made
    /\ \E day \in WeekdaySetArgs :
          /\ rtc' = IF 0 <= day /\ day <= 6 THEN [rtc EXCEPT !._weekday = day] ELSE rtc
          /\ ret' = WeekdayRet("weekday.setter", day, "", "returned",
                               ~(0 <= day /\ day <= 6))
    /\ UNCHANGED nonRtc

\* the weekdayName setter: stores the index of a day name, else warns
RtcSetWeekdayName ==
    /\ rtc.made
    /\ \E day \in WeekdayNameArgs :
          /\ rtc' = IF day \in DayNames
                    THEN [rtc EXCEPT
                            !._weekday = (CHOOSE i \in 1..7 : _dayNames[i] = day) - 1]
                    ELSE rtc
          /\ ret' = WeekdayRet("weekdayName.setter", 0, day, "returned",
                               day \notin DayNames)
    /\ UNCHANGED nonRtc

\* the weekdayName getter: _dayNames[self._weekday]; an index of 7 or more is
\* an IndexError
RtcGetWeekdayName ==
    /\ rtc.made
    /\ ret' = IF rtc._weekday \in 0..6
              THEN WeekdayRet("weekdayName", rtc._weekday, _dayNames[rtc._weekday + 1],
                              "returned", FALSE)
              ELSE WeekdayRet("weekdayName", rtc._weekday, "", "IndexError", FALSE)
    /\ UNCHANGED rtc
    /\ UNCHANGED nonRtc

\* optional integer arguments of alarmSetup: <<>> is the default False
MinuteArgs == {<<>>, <<30>>}

HourArgs == {<<>>, <<7>>}

WeekdayArgs == {<<>>, <<0>>, <<3>>}

DateArgs == {<<>>, <<0>>, <<15>>}

AlarmRet(op, r, minutes, hours, weekday, date) ==
    [op |-> op, outcome |-> r.exc, writes |-> r.writes, early |-> r.early,
     minutes |-> minutes, hours |-> hours, weekday |-> weekday, date |-> date,
     changed |-> r.rtc # rtc]

RtcAlarmSetup ==
    /\ rtc.made
    /\ \E minutes \in MinuteArgs, hours \in HourArgs, weekday \in WeekdayArgs,
          date \in DateArgs, interrupt \in BOOLEAN, ok \in [1..5 -> Oks] :
          \E r \in {alarmSetup(rtc, minutes, hours, weekday, date, interrupt,
                               ok[1], ok[2], ok[3], ok[4], ok[5])} :
             /\ rtc' = r.rtc
             /\ ret' = AlarmRet("alarmSetup", r, minutes, hours, weekday, date)
    /\ UNCHANGED nonRtc

\* alarmDisable(): alarmSetup with every argument False, then checkAlarm()
RtcAlarmDisable ==
    /\ rtc.made
    /\ \E ok \in [1..7 -> Oks] :
          \E a \in {alarmSetup(rtc, <<>>, <<>>, <<>>, <<>>, FALSE,
                               ok[1], ok[2], ok[3], ok[4], ok[5])} :
          \E c \in {checkAlarm(a.rtc, ok[6], ok[7])} :
          \E r \in {IF a.exc # "none" THEN a
                    ELSE [rtc |-> c.rtc, exc |-> c.exc, writes |-> a.writes + c.writes,
                          early |-> FALSE]} :
             /\ rtc' = r.rtc
             /\ ret' = AlarmRet("alarmDisable", r, <<>>, <<>>, <<>>, <<>>)
    /\ UNCHANGED nonRtc

RtcCheckAlarm ==
    /\ rtc.made
    /\ \E okR \in Oks, okW \in Oks :
          LET c == checkAlarm(rtc, okR, okW)
          IN /\ rtc' = c.rtc
             /\ ret' = [op |-> "checkAlarm", outcome |-> c.exc, writes |-> c.writes,
                        flag |-> c.flag, changed |-> c.rtc # rtc]
    /\ UNCHANGED nonRtc

\* the device raises its alarm flag
RtcDeviceAlarm ==
    /\ rtc.made
    /\ _readBit(rtc.dev[_STATUS], 2) = 0
    /\ rtc' = [rtc EXCEPT !.dev[_STATUS] = _setBit(rtc.dev[_STATUS], 2)]
    /\ UNCHANGED ret
    /\ UNCHANGED nonRtc

\* __init__: no object exists when it raises
ConstructRV3028 ==
    /\ ~rtc.made
    /\ ret.op = "none"
    /\ \E dev \in RtcConfigDevices, ok \in [1..9 -> Oks] :
          \E r \in {RV3028_init(dev, ok)} :
             /\ rtc' = IF r.exc = "none" THEN r.rtc ELSE rtc
             /\ ret' = [op |-> "__init__", driver |-> "RV3028",
                        outcome |-> IF r.exc = "none" THEN "ok" ELSE r.exc,
                        logged |-> IF r.exc = "OSError"
                                   THEN "PiicoDev could not communicate" ELSE "none",
                        failed |-> \E i \in 1..9 : ~ok[i], idReadFailed |-> ~ok[1],
                        mismatch |-> FALSE,
                        writes |-> r.writes]
    /\ UNCHANGED nonRtc

(***************************************************************************)
(* Specifications.                                                         *)
(***************************************************************************)
vars == <<codec, handle, devAddress, cap, veml, ens, rtc, busFaulty, ret>>

\* the pure bit and BCD functions
InitCodec ==
    /\ CodecInit /\ HandleIdle /\ CapIdle /\ VemlIdle /\ EnsIdle /\ RtcIdle
    /\ busFaulty = FALSE
    /\ ret = NoCall

SpecCodec == InitCodec /\ [][CodecNext]_vars

\* a Potentiometer, Ultrasonic or Switch whose address is changed
InitHandle ==
    /\ HandleInit /\ CodecIdle /\ CapIdle /\ VemlIdle /\ EnsIdle /\ RtcIdle
    /\ busFaulty = TRUE

SpecHandle == InitHandle /\ [][HandleNext]_vars

\* one constructed driver whose measurement getters are called on a bus that
\* can fail
InitGetters ==
    /\ CodecIdle
    /\ busFaulty = TRUE
    /\ ret = NoCall
    /\ \/ HandleInit /\ CapIdle /\ VemlIdle /\ EnsIdle /\ RtcIdle
       \/ HandleIdle /\ CapInit /\ VemlIdle /\ EnsIdle /\ RtcIdle
       \/ HandleIdle /\ CapIdle /\ VemlInit /\ EnsIdle /\ RtcIdle
       \/ HandleIdle /\ CapIdle /\ VemlIdle /\ EnsInit /\ RtcIdle

NextGetters ==
    \/ PotRaw
    \/ PotValue
    \/ UsRoundTrip
    \/ UsDistanceMm
    \/ UsDistanceInch
    \/ SwPressCount
    \/ SwIsPressed
    \/ SwWasPressed
    \/ VemlRead
    \/ CapRead
    \/ CapReadDeltaCounts
    \/ EnsStatus
    \/ EnsAqi
    \/ EnsTvoc
    \/ EnsEco2
    \/ EnsHumidity
    \/ EnsTemperature

SpecGetters == InitGetters /\ [][NextGetters]_vars

\* the construction of one driver on a bus that can fail, in front of a
\* device that may answer on another address or be another part
InitConstruct ==
    /\ CodecIdle /\ CapIdle /\ VemlIdle /\ EnsIdle /\ RtcIdle
    /\ handle = [kind |-> "none", address |-> 0]
    /\ devAddress \in {8, 9, 23, 53, 66}
    /\ busFaulty \in BOOLEAN
    /\ ret = NoCall

NextConstruct ==
    \/ ConstructHandle
    \/ ConstructCAP1203
    \/ ConstructVEML6030
    \/ ConstructENS160
    \/ ConstructRV3028

SpecConstruct == InitConstruct /\ [][NextConstruct]_vars

\* a register content and a mask for the merge loops: any byte under any
\* mask, and any of VemlConfs under 16-bit masks
MergeInit ==
    \/ codec \in [op : {"input8"}, word : Bytes, n : {0}, v : Bytes, out : {0},
                  back : {0}]
    \/ codec \in [op : {"input16"}, word : VemlConfs, n : {0},
                  v : {Shl(hi, 8) + lo : hi \in CapMaskArgs, lo \in CapMaskArgs},
                  out : {0}, back : {0}]

\* one constructed CAP1203, VEML6030 or RV3028 whose masked register writes
\* are called, or the merge loops alone
InitMask ==
    /\ HandleIdle /\ EnsIdle
    /\ busFaulty \in BOOLEAN
    /\ ret = NoCall
    /\ \/ CodecIdle /\ CapInit /\ VemlIdle /\ RtcIdle
       \/ CodecIdle /\ CapIdle /\ VemlInit /\ RtcIdle
       \/ CodecIdle /\ CapIdle /\ VemlIdle /\ RtcInitOver(RtcConfigDevices)
       \/ MergeInit /\ CapIdle /\ VemlIdle /\ RtcIdle /\ busFaulty = FALSE

NextMask ==
    \/ ApplyWriteBack8
    \/ ApplyWriteBack16
    \/ CapSetBits
    \/ VemlSetGain
    \/ RtcSetBatterySwitchover
    \/ RtcSetTrickleCharger
    \/ RtcConfigTrickleCharger

SpecMask == InitMask /\ [][NextMask]_vars

\* a constructed ENS160 and its device
InitENS ==
    /\ CodecIdle /\ HandleIdle /\ CapIdle /\ VemlIdle /\ RtcIdle
    /\ EnsInit
    /\ busFaulty = FALSE
    /\ ret = NoCall

NextENS ==
    \/ EnsStatus
    \/ EnsAqi
    \/ EnsTvoc
    \/ EnsEco2
    \/ EnsDeviceUpdate

SpecENS == InitENS /\ [][NextENS]_vars

\* a constructed RV3028 whose date and time are written and read, in front
\* of a device that stores what is written
InitRTC ==
    /\ CodecIdle /\ HandleIdle /\ CapIdle /\ VemlIdle /\ EnsIdle
    /\ busFaulty = FALSE
    /\ RtcInitOver(RtcTimeDevices)
    /\ ret = NoCall

NextRTC ==
    \/ RtcSetDateTime
    \/ RtcGetDateTime

SpecRTC == InitRTC /\ [][NextRTC]_vars

\* a constructed RV3028 whose weekday is set and whose time and event
\* timestamp are read
InitWeekday ==
    /\ CodecIdle /\ HandleIdle /\ CapIdle /\ VemlIdle /\ EnsIdle
    /\ busFaulty = FALSE
    /\ RtcInitOver(RtcStampDevices)
    /\ ret = NoCall

NextWeekday ==
    \/ RtcSetWeekday
    \/ RtcSetWeekdayName
    \/ RtcGetWeekdayName
    \/ RtcGetDateTime

SpecWeekday == InitWeekday /\ [][NextWeekday]_vars

\* a constructed RV3028 whose alarm is set up
InitAlarm ==
    /\ CodecIdle /\ HandleIdle /\ CapIdle /\ VemlIdle /\ EnsIdle
    /\ busFaulty = FALSE
    /\ RtcInitOver({d \in RtcConfigDevices : d[_EE_BACKUP] = 0 /\ d[_CTRL1] = d[_STATUS] % 4})
    /\ ret = NoCall

NextAlarm ==
    \/ RtcAlarmSetup
    \/ RtcAlarmDisable
    \/ RtcCheckAlarm
    \/ RtcDeviceAlarm

SpecAlarm == InitAlarm /\ [][NextAlarm]_vars

(***************************************************************************)
(* Claims.                                                                 *)
(***************************************************************************)
\* C1: setI2Caddr(x) is rejected exactly when x < 8 or x > 119; a rejected
\* call makes no bus write and keeps the stored address, an accepted call
\* leaves the stored address equal to x.
C1_AddrValidation ==
    ret.op = "setI2Caddr" =>
        /\ (ret.outcome = "AssertionError") <=> (ret.arg < 8 \/ ret.arg > 119)
        /\ ret.outcome = "AssertionError" =>
               (ret.writes = 0 /\ handle.address = ret.old)
        /\ ret.outcome # "AssertionError" =>
               (ret.outcome = "ok" /\ handle.address = ret.arg)

\* 100 was accepted earlier and 120 has just been rejected
C1_Witness ==
    /\ ret.op = "setI2Caddr"
    /\ ret.arg = 120
    /\ ret.outcome = "AssertionError"
    /\ ret.old = 100
    /\ handle.address = 100

\* C8: the stored address changes only together with the device's address,
\* so the handle always holds the address the device answers on.
C8_StoredEqualsDevice == handle.address = devAddress

\* bit k of a non-negative integer, by arithmetic
BitOf(x, k) == (x \div 2^k) % 2

FieldWidth(op) ==
    CASE op = "writeCrumb" -> 2
      [] op = "writeTribit" -> 3
      [] OTHER -> 1

\* C5: writing a bit, crumb or tribit at position n and reading it back at n
\* returns the written value, and every bit of the word outside the field
\* keeps its value.
C5_FieldRoundTrip ==
    codec.op \in {"writeBit", "write_bit", "writeCrumb", "writeTribit"} =>
        /\ codec.back = codec.v
        /\ \A k \in 0..(MaxPos + 4) :
               (k < codec.n \/ k >= codec.n + FieldWidth(codec.op)) =>
                   BitOf(codec.out, k) = BitOf(codec.word, k)

C5_Witness ==
    /\ codec.op = "writeTribit"
    /\ codec.v = 5
    /\ codec.n = 2
    /\ codec.word = 75
    /\ codec.out = 87
    /\ codec.back = 5

\* C6: for v in 0..99, _bcdDecode(_bcdEncode(v)) = v and _bcdEncode(v) is one
\* byte whose two nibbles are both decimal digits.
C6_BcdRoundTrip ==
    (codec.op = "bcd" /\ codec.word <= 99) =>
        /\ codec.back = codec.word
        /\ codec.out \in 0..255
        /\ codec.out \div 16 \in 0..9
        /\ codec.out % 16 \in 0..9

C6_Witness ==
    /\ codec.op = "bcd"
    /\ codec.word = 59
    /\ codec.out = 89
    /\ codec.back = 59

\* the measurement getters
GetterOps ==
    {"raw", "value", "round_trip_us", "distance_mm", "distance_inch", "press_count",
     "VEML6030.read", "CAP1203.read", "CAP1203.readDeltaCounts",
     "status", "aqi", "tvoc", "eco2", "humidity", "temperature"}

\* C2: a measurement getter one of whose bus reads failed returns the
\* 'unavailable' sentinel (NaN or None) and raises nothing.
C2_SentinelOnFailure ==
    (ret.op \in GetterOps /\ ret.failed) =>
        (ret.outcome = "returned" /\ ret.sentinel \in {"NaN", "None"})

Constructed(driver) ==
    CASE driver = "CAP1203" -> cap.made
      [] driver = "VEML6030" -> veml.made
      [] driver = "ENS160" -> ens.made
      [] driver = "RV3028" -> rtc.made
      [] OTHER -> handle.kind = driver

C4_MaskedWrite ==
    /\ ret.op = "CAP1203.setBits" =>
           \A k \in 0..7 :
               BitOf(cap.dev[ret.reg], k) =
                   IF ret.outcome = "none" /\ BitOf(ret.mask, k) = 1
                   THEN BitOf(ret.byte, k) ELSE BitOf(ret.old, k)
    /\ ret.op = "setGain" =>
           \A k \in 0..15 :
               BitOf(veml.conf, k) =
                   IF ret.outcome = "none" /\ k \in {11, 12}
                   THEN BitOf(ret.byte, k) ELSE BitOf(ret.old, k)
    /\ ret.op = "setBatterySwitchover" =>
           \A k \in 0..7 :
               BitOf(rtc.dev[_EE_BACKUP], k) =
                   IF ret.delivered /\ k \in {2, 3}
                   THEN (IF k = 2 /\ ret.arg = "True" THEN 1 ELSE 0)
                   ELSE BitOf(ret.old, k)
    /\ ret.op = "setTrickleCharger" =>
           \A k \in 0..7 :
               BitOf(rtc.dev[_EE_BACKUP], k) =
                   IF ret.delivered /\ k = 5
                   THEN (IF ret.arg = "True" THEN 1 ELSE 0)
                   ELSE BitOf(ret.old, k)
    /\ codec.op \in {"writeBack8", "writeBack16"} => codec.out = codec.word

\* setBits(0x5A under mask 0x70) on a register holding 0x2F left 0x5F
C4_Witness ==
    /\ ret.op = "CAP1203.setBits"
    /\ ret.outcome = "none"
    /\ ret.old = 47
    /\ ret.byte = 90
    /\ ret.mask = 112
    /\ cap.dev[ret.reg] = 95

\* C7 as stated: an eCO2 of 399 is rated 'excellent', 750 'good' and 1600
\* 'bad'.
C7_RatingAsStated ==
    (ret.op = "eco2" /\ ret.outcome = "returned" /\ ret.sentinel = "none") =>
        /\ ret.value = 399 => ret.rating = "excellent"
        /\ ret.value = 750 => ret.rating = "good"
        /\ ret.value = 1600 => ret.rating = "bad"

\* C7, amended: the eco2 rating depends only on the cached eCO2 value and
\* follows the breakpoint table, a value below 400 being rated 'invalid':
\* 400..600 excellent, 601..800 good, 801..1000 fair, 1001..1500 poor, above
\* 1500 bad; so 399 is rated 'invalid', 750 'good' and 1600 'bad'.
C7_RatingTable ==
    (ret.op = "eco2" /\ ret.outcome = "returned" /\ ret.sentinel = "none") =>
        /\ ens._eco2 = <<ret.value>>
        /\ ret.value < 400 => ret.rating = "invalid"
        /\ ret.value \in 400..600 => ret.rating = "excellent"
        /\ ret.value \in 601..800 => ret.rating = "good"
        /\ ret.value \in 801..1000 => ret.rating = "fair"
        /\ ret.value \in 1001..1500 => ret.rating = "poor"
        /\ ret.value > 1500 => ret.rating = "bad"

\* the eco2 getter returned a cached 399 with its rating
C7_Witness ==
    /\ ret.op = "eco2"
    /\ ret.outcome = "returned"
    /\ ens._eco2 = <<399>>
    /\ ret.value = 399
    /\ ret.rating = "invalid"

\* calendar values the device's registers are made for: two-digit years,
\* hours 0..23 in 24-hour mode and 1..12 in 12-hour mode
InDomain(t, mode) ==
    /\ t.second \in 0..59 /\ t.minute \in 0..59
    /\ t.weekday \in 0..6 /\ t.day \in 1..31 /\ t.month \in 1..12
    /\ t.year \in 0..99
    /\ IF mode = "24" THEN t.hour \in 0..23 ELSE t.hour \in 1..12

\* the hour register getDateTime has just decoded
HourByte == IF ret.eventTimestamp THEN rtc.dev[_SECTS + 2] ELSE rtc.dev[_SEC + 2]

\* C9: getDateTime after a setDateTime the device stored restores second,
\* minute, hour, weekday, day, month, two-digit year and the ampm mode, for
\* in-domain values in 24-hour and in 12-hour mode; in 12-hour mode an hour
\* byte with bit 5 set decodes to 'PM' and the BCD value of the byte without
\* bit 5, and one with bit 5 clear decodes to 'AM'.
C9_DateTimeRoundTrip ==
    (ret.op = "getDateTime" /\ ret.outcome = "none") =>
        /\ (ret.afterSet /\ ~ret.eventTimestamp /\ InDomain(ret.sample, ret.mode)) =>
               /\ rtc.second = ret.sample.second
               /\ rtc.minute = ret.sample.minute
               /\ rtc.hour = ret.sample.hour
               /\ rtc._weekday = ret.sample.weekday
               /\ rtc.day = ret.sample.day
               /\ rtc.month = ret.sample.month
               /\ rtc.year = ret.sample.year
               /\ rtc.ampm = ret.mode
        /\ BitOf(rtc.dev[_CTRL2], 1) = 1 =>
               IF BitOf(HourByte, 5) = 1
               THEN /\ rtc.ampm = "PM"
                    /\ rtc.hour = ((HourByte - 32) \div 16) * 10 + ((HourByte - 32) % 16)
               ELSE rtc.ampm = "AM"
        /\ BitOf(rtc.dev[_CTRL2], 1) = 0 => rtc.ampm = "24"

\* 11 PM was set, stored as 0x31, and read back
C9_Witness ==
    /\ ret.op = "getDateTime"
    /\ ret.outcome = "none"
    /\ ret.afterSet
    /\ ~ret.eventTimestamp
    /\ ret.mode = "PM"
    /\ ret.sample.hour = 11
    /\ rtc.dev[_SEC + 2] = 49
    /\ rtc.hour = 11
    /\ rtc.ampm = "PM"

\* C10: alarmSetup called with both a weekday and a date supplied, whatever
\* their values, returns early: no bus write, and alarmWeekdayDate,
\* alarmHours, alarmMinutes and the device registers keep their values.
C10_BothGivenReturnsEarly ==
    (ret.op = "alarmSetup" /\ ret.weekday # <<>> /\ ret.date # <<>>) =>
        (ret.early /\ ret.writes = 0 /\ ~ret.changed)

\* C11: for every round-trip time t the device delivers, distance_mm is
\* round(t * 0.343 / 2), an integer no further than one half from
\* t * 0.343 / 2, and distance_inch is that integer divided by 25.4; for
\* t = 1000 distance_mm is 172.
C11_Distance ==
    (ret.op \in {"distance_mm", "distance_inch"} /\ ret.outcome = "returned") =>
        \E mm \in 0..11240 :
            /\ 2000 * mm - 343 * ret.trip \in -1000..1000
            /\ ret.trip = 1000 => mm = 172
            /\ IF ret.op = "distance_mm"
               THEN ret.value = mm /\ ret.den = 1
               ELSE ret.value * 254 = mm * 10 * ret.den

\* a round trip of 1000 microseconds was measured as 172 mm
C11_Witness ==
    /\ ret.op = "distance_mm"
    /\ ret.outcome = "returned"
    /\ ret.trip = 1000
    /\ ret.value = 172

\* the six labels of the ratings dict of aqi
AqiLabels == {"invalid", "excellent", "good", "moderate", "poor", "unhealthy"}

\* C12: for every AQI byte cached from the device, the aqi getter returns
\* (v, label) with v the low three bits of the byte and label one of the six
\* labels; no value of the 3-bit field makes the getter fail.
C12_AqiNeverFails ==
    (ret.op = "aqi" /\ ~ret.failed /\ ens._aqi # <<>>) =>
        /\ ret.outcome = "returned"
        /\ ret.value = ens._aqi[1] % 8
        /\ ret.rating \in AqiLabels

\* the four cached values of the ENS160 driver
EnsCache(e) == <<e._status, e._aqi, e._tvoc, e._eco2>>

\* the cached value an access reports: the low three bits for aqi
EnsCached(e, op) ==
    CASE op = "status" -> e._status
      [] op = "aqi" -> IF e._aqi = <<>> THEN <<>> ELSE <<e._aqi[1] % 8>>
      [] op = "tvoc" -> e._tvoc
      [] op = "eco2" -> e._eco2

\* C13: an aqi / tvoc / eco2 / status access refreshes the cache only when
\* bit 1 of the device status is set; when it is clear the access leaves the
\* four cached values as they were and returns the previously cached value,
\* None where aqi, tvoc or eco2 has never been refreshed.
C13_GatedRefresh ==
    [][(/\ ens'.dev = ens.dev
        /\ ret'.op \in {"status", "aqi", "tvoc", "eco2"}
        /\ ~ret'.failed
        /\ _read_bit(ens.dev.status, _BIT_DEVICE_STATUS_NEWDAT) = 0)
       => /\ EnsCache(ens') = EnsCache(ens)
          /\ ret'.outcome = "returned"
          /\ IF EnsCached(ens, ret'.op) = <<>>
             THEN ret'.op # "status" /\ ret'.sentinel = "None"
             ELSE ret'.sentinel = "none" /\ ret'.value = EnsCached(ens, ret'.op)[1]]_vars

\* C14: in front of a device holding in-domain calendar values, after any
\* sequence of weekday and weekdayName setter calls and getDateTime calls the
\* weekday field is an integer in 0..6 and weekdayName is one of the seven
\* day names.
C14_WeekdayInRange ==
    rtc.made =>
        /\ rtc._weekday \in 0..6
        /\ ret.op = "weekdayName" => ret.outcome = "returned" /\ ret.name \in DayNames

\* bits 11-12 of a configuration word
GainBits(conf) == BitAnd(Shr(conf, 11), 3)

\* the driver's gain and res are a pair of the table and the device's
\* configuration register holds the gain bits of that gain
GainMatchesDevice(v) ==
    /\ v.gain \in Gains
    /\ v.res = GainConf(v.gain).res
    /\ GainBits(v.conf) = GainBits(FromBytesLittle(GainConf(v.gain).conf))

\* C15: after a setGain call (gain, res) is one of the four pairs of the
\* table and matches the gain bits held in the device's configuration
\* register; a call with another gain fails with a ValueError and changes
\* neither the driver nor the device; a call whose bus transaction fails does
\* not leave gain and res differing from the device.
C15_GainFollowsDevice ==
    [][(veml.made /\ ret'.op = "setGain")
       => /\ veml'.gain \in Gains /\ veml'.res = GainConf(veml'.gain).res
          /\ ret'.arg \notin Gains <=> ret'.outcome = "ValueError"
          /\ ret'.outcome = "ValueError" => veml' = veml
          /\ ret'.outcome = "none" => GainMatchesDevice(veml')
          /\ GainMatchesDevice(veml) => GainMatchesDevice(veml')]_vars

\* C16: is_pressed and was_pressed report True only when the bus read
\* succeeded and the register value read indicates a press (not 1 for
\* is_pressed, not 0 for was_pressed); a failed read never makes either
\* return True.
C16_PressedOnlyWhenRead ==
    (ret.op \in {"is_pressed", "was_pressed"} /\ ret.pressed) =>
        /\ ~ret.failed
        /\ ret.reg # (IF ret.op = "is_pressed" THEN 1 ELSE 0)

=============================================================================
